---- MODULE Spec2Model ----
(***************************************************************************)
(* CELL coordinate codec (sashite/cell.js): the Coordinate value type, its *)
(* serialization (toString / format) and the parser, as a state machine.   *)
(* Strings are sequences of UTF-16 code units (what charCodeAt returns).   *)
(***************************************************************************)
EXTENDS Integers, Sequences, FiniteSets, TLC

\* ------------------------------------------------------------ constants
\* constants.ts
MAX_DIMENSIONS == 3
MAX_INDEX_VALUE == 255
MAX_STRING_LENGTH == 7

\* errors.ts: ErrorMessages
EMPTY_INPUT == "empty input"
INPUT_TOO_LONG == "input exceeds 7 characters"
INVALID_START == "must start with lowercase letter"
UNEXPECTED_CHARACTER == "unexpected character"
LEADING_ZERO == "leading zero"
TOO_MANY_DIMENSIONS == "exceeds 3 dimensions"
INDEX_OUT_OF_RANGE == "index exceeds 255"
NO_INDICES == "at least one index required"

ErrorMessages ==
  { EMPTY_INPUT, INPUT_TOO_LONG, INVALID_START, UNEXPECTED_CHARACTER,
    LEADING_ZERO, TOO_MANY_DIMENSIONS, INDEX_OUT_OF_RANGE, NO_INDICES }

\* parser.ts: const enum DimensionType
Lowercase == 0
Integer == 1
Uppercase == 2

\* ------------------------------------------------------------ coordinate.ts
\* String.fromCharCode(97 + index) / String.fromCharCode(97 + first, 97 + second)
\* Mutant: the single-letter threshold off by one.
encodeToLower_Threshold(index) ==
  IF index <= 26
  THEN << 97 + index >>
  ELSE LET adjusted == index - 26
           first == adjusted \div 26
           second == adjusted % 26
       IN << 97 + first, 97 + second >>

encodeToLower(index) ==
  IF index < 26
  THEN << 97 + index >>
  ELSE LET adjusted == index - 26
           first == adjusted \div 26
           second == adjusted % 26
       IN << 97 + first, 97 + second >>

\* Mutant: the uppercase alphabet starts one code unit early, at '@'.
encodeToUpper_FromAt(index) ==
  IF index < 26
  THEN << 64 + index >>
  ELSE LET adjusted == index - 26
           first == adjusted \div 26
           second == adjusted % 26
       IN << 64 + first, 64 + second >>

encodeToUpper(index) ==
  IF index < 26
  THEN << 65 + index >>
  ELSE LET adjusted == index - 26
           first == adjusted \div 26
           second == adjusted % 26
       IN << 65 + first, 65 + second >>

\* Number.prototype.toString() of a positive integer: its decimal digits.
RECURSIVE NumberToString(_)
NumberToString(n) ==
  IF n < 10
  THEN << 48 + n >>
  ELSE Append(NumberToString(n \div 10), 48 + (n % 10))

\* Mutant: the index written 0-based.
encodeToNumber_ZeroBased(index) == NumberToString(index)

encodeToNumber(index) == NumberToString(index + 1)

\* JavaScript numbers that are not integers. The model's numbers are integers, so
\* 1.5, 0.5, NaN and Infinity are coded by values no integer of the model takes.
NonIntegers == {1000001, 1000002, 1000003, 1000004}

\* Number.isInteger
IsInteger(v) == v \in Int /\ v \notin NonIntegers

\* Mutant: the index values are checked before the index count.
ConstructorError_ValuesFirst(indices) ==
  IF Len(indices) = 0 THEN NO_INDICES
  ELSE IF \E i \in 1..Len(indices) :
            ~IsInteger(indices[i]) \/ indices[i] < 0 \/ indices[i] > MAX_INDEX_VALUE
       THEN INDEX_OUT_OF_RANGE
  ELSE IF Len(indices) > MAX_DIMENSIONS THEN TOO_MANY_DIMENSIONS
  ELSE "none"

\* Mutant: an empty list of indices is not refused.
ConstructorError_NoEmptyCheck(indices) ==
  IF Len(indices) > MAX_DIMENSIONS THEN TOO_MANY_DIMENSIONS
  ELSE IF \E i \in 1..Len(indices) :
            ~IsInteger(indices[i]) \/ indices[i] < 0 \/ indices[i] > MAX_INDEX_VALUE
       THEN INDEX_OUT_OF_RANGE
  ELSE "none"

\* Mutant: the upper limit of an index is not checked.
ConstructorError_NoUpperLimit(indices) ==
  IF Len(indices) = 0 THEN NO_INDICES
  ELSE IF Len(indices) > MAX_DIMENSIONS THEN TOO_MANY_DIMENSIONS
  ELSE IF \E i \in 1..Len(indices) : ~IsInteger(indices[i]) \/ indices[i] < 0
       THEN INDEX_OUT_OF_RANGE
  ELSE "none"

\* The first failing check of the constructor, "none" when it constructs.
ConstructorError(indices) ==
  IF Len(indices) = 0 THEN NO_INDICES
  ELSE IF Len(indices) > MAX_DIMENSIONS THEN TOO_MANY_DIMENSIONS
  ELSE IF \E i \in 1..Len(indices) :
            ~IsInteger(indices[i]) \/ indices[i] < 0 \/ indices[i] > MAX_INDEX_VALUE
       THEN INDEX_OUT_OF_RANGE
  ELSE "none"

\* One dimension of toString's loop: dim is 0-based.
EncodeDimension(dim, index) ==
  LET dimensionType == dim % 3
  IN CASE dimensionType = 0 -> encodeToLower(index)
       [] dimensionType = 1 -> encodeToNumber(index)
       [] dimensionType = 2 -> encodeToUpper(index)

\* Coordinate.toString: the loop over dim = 0 .. length-1, result += ...
RECURSIVE ToStringFrom(_, _)
ToStringFrom(indices, dim) ==
  IF dim >= Len(indices)
  THEN << >>
  ELSE EncodeDimension(dim, indices[dim + 1]) \o ToStringFrom(indices, dim + 1)

toString(indices) == ToStringFrom(indices, 0)

\* ------------------------------------------------------------ parser.ts
\* Mutant: the lower limit of the class off by one ('`' taken for a letter).
isLowercase_FromBacktick(charCode) == charCode >= 96 /\ charCode <= 122

isLowercase(charCode) == charCode >= 97 /\ charCode <= 122
\* Mutant: the lower limit of the class off by one ('@' taken for a letter).
isUppercase_FromAt(charCode) == charCode >= 64 /\ charCode <= 90

isUppercase(charCode) == charCode >= 65 /\ charCode <= 90
\* Mutant: the upper limit of the class off by one (':' taken for a digit).
isDigit_ToColon(charCode) == charCode >= 48 /\ charCode <= 58

isDigit(charCode) == charCode >= 48 /\ charCode <= 57

\* Mutant: a run of three or more letters decodes to a value above the limit.
decodeLowercase_RejectLong(chars) ==
  IF Len(chars) = 1
  THEN chars[1] - 97
  ELSE IF Len(chars) > 2 THEN MAX_INDEX_VALUE + 1
  ELSE LET first == chars[1] - 97
           second == chars[2] - 97
       IN 26 + first * 26 + second

decodeLowercase(chars) ==
  IF Len(chars) = 1
  THEN chars[1] - 97
  ELSE LET first == chars[1] - 97
           second == chars[2] - 97
       IN 26 + first * 26 + second

decodeUppercase(chars) ==
  IF Len(chars) = 1
  THEN chars[1] - 65
  ELSE LET first == chars[1] - 65
           second == chars[2] - 65
       IN 26 + first * 26 + second

RECURSIVE DecodeDigits(_, _, _)
DecodeDigits(chars, i, value) ==
  IF i > Len(chars)
  THEN value
  ELSE DecodeDigits(chars, i + 1, value * 10 + (chars[i] - 48))

\* Mutant: the value kept in one byte.
decodeInteger_Byte(chars) == (DecodeDigits(chars, 1, 0) % 256) - 1

decodeInteger(chars) == DecodeDigits(chars, 1, 0) - 1

charCodeAt(s, pos) == s[pos + 1]

\* Membership of a code unit in the class of the expected alphabet.
InExpectedClass(expectedType, charCode) ==
  CASE expectedType = Lowercase -> isLowercase(charCode)
    [] expectedType = Integer -> isDigit(charCode)
    [] expectedType = Uppercase -> isUppercase(charCode)

\* while (pos < s.length && isX(s.charCodeAt(pos))) pos++ : the value of pos after it.
RECURSIVE RunEnd(_, _, _)
RunEnd(s, pos, expectedType) ==
  IF pos < Len(s) /\ InExpectedClass(expectedType, charCodeAt(s, pos))
  THEN RunEnd(s, pos + 1, expectedType)
  ELSE pos

\* The code units s[from .. to-1] (0-based), the chars array of a run.
RunChars(s, from, to) == SubSeq(s, from + 1, to)

Throw(f, message) == [f EXCEPT !.error = message]

\* Mutant: the first character is inspected before the upper length limit.
ParseEntry_StartFirst(s) ==
  LET f == [s |-> s, pos |-> 0, indices |-> << >>,
            expectedType |-> Lowercase, error |-> "none"]
  IN IF Len(s) = 0 THEN Throw(f, EMPTY_INPUT)
     ELSE IF ~isLowercase(charCodeAt(s, 0)) THEN Throw(f, INVALID_START)
     ELSE IF Len(s) > MAX_STRING_LENGTH THEN Throw(f, INPUT_TOO_LONG)
     ELSE f

\* Mutant: no upper limit on the length of the input.
ParseEntry_NoLengthLimit(s) ==
  LET f == [s |-> s, pos |-> 0, indices |-> << >>,
            expectedType |-> Lowercase, error |-> "none"]
  IN IF Len(s) = 0 THEN Throw(f, EMPTY_INPUT)
     ELSE IF ~isLowercase(charCodeAt(s, 0)) THEN Throw(f, INVALID_START)
     ELSE f

\* parse, lines 238-256: the length checks, the first character, the locals.
ParseEntry(s) ==
  LET f == [s |-> s, pos |-> 0, indices |-> << >>,
            expectedType |-> Lowercase, error |-> "none"]
  IN IF Len(s) = 0 THEN Throw(f, EMPTY_INPUT)
     ELSE IF Len(s) > MAX_STRING_LENGTH THEN Throw(f, INPUT_TOO_LONG)
     ELSE IF ~isLowercase(charCodeAt(s, 0)) THEN Throw(f, INVALID_START)
     ELSE f

\* Mutant: the decoded letter index is not compared with the limit.
CaseLowercase_NoRangeCheck(f) ==
  LET charCode == charCodeAt(f.s, f.pos)
  IN IF ~isLowercase(charCode) THEN Throw(f, UNEXPECTED_CHARACTER)
     ELSE LET pos == RunEnd(f.s, f.pos + 1, Lowercase)
              chars == RunChars(f.s, f.pos, pos)
              index == decodeLowercase(chars)
          IN [f EXCEPT !.pos = pos, !.indices = Append(@, index),
                       !.expectedType = Integer]

\* case DimensionType.Lowercase
CaseLowercase(f) ==
  LET charCode == charCodeAt(f.s, f.pos)
  IN IF ~isLowercase(charCode) THEN Throw(f, UNEXPECTED_CHARACTER)
     ELSE LET pos == RunEnd(f.s, f.pos + 1, Lowercase)
              chars == RunChars(f.s, f.pos, pos)
              index == decodeLowercase(chars)
          IN IF index > MAX_INDEX_VALUE
             THEN Throw([f EXCEPT !.pos = pos], INDEX_OUT_OF_RANGE)
             ELSE [f EXCEPT !.pos = pos, !.indices = Append(@, index),
                            !.expectedType = Integer]

\* Mutant: no check for a leading zero.
CaseInteger_NoLeadingZero(f) ==
  LET charCode == charCodeAt(f.s, f.pos)
  IN IF ~isDigit(charCode) THEN Throw(f, UNEXPECTED_CHARACTER)
     ELSE LET pos == RunEnd(f.s, f.pos + 1, Integer)
              chars == RunChars(f.s, f.pos, pos)
              index == decodeInteger(chars)
          IN IF index < 0 \/ index > MAX_INDEX_VALUE
             THEN Throw([f EXCEPT !.pos = pos], INDEX_OUT_OF_RANGE)
             ELSE [f EXCEPT !.pos = pos, !.indices = Append(@, index),
                            !.expectedType = Uppercase]

\* case DimensionType.Integer
CaseInteger(f) ==
  LET charCode == charCodeAt(f.s, f.pos)
  IN IF ~isDigit(charCode) THEN Throw(f, UNEXPECTED_CHARACTER)
     ELSE IF charCode = 48 THEN Throw(f, LEADING_ZERO)
     ELSE LET pos == RunEnd(f.s, f.pos + 1, Integer)
              chars == RunChars(f.s, f.pos, pos)
              index == decodeInteger(chars)
          IN IF index < 0 \/ index > MAX_INDEX_VALUE
             THEN Throw([f EXCEPT !.pos = pos], INDEX_OUT_OF_RANGE)
             ELSE [f EXCEPT !.pos = pos, !.indices = Append(@, index),
                            !.expectedType = Uppercase]

\* Mutant: after an uppercase run the expected type is not set back to Lowercase.
CaseUppercase_KeepsType(f) ==
  LET charCode == charCodeAt(f.s, f.pos)
  IN IF ~isUppercase(charCode) THEN Throw(f, UNEXPECTED_CHARACTER)
     ELSE LET pos == RunEnd(f.s, f.pos + 1, Uppercase)
              chars == RunChars(f.s, f.pos, pos)
              index == decodeUppercase(chars)
          IN IF index > MAX_INDEX_VALUE
             THEN Throw([f EXCEPT !.pos = pos], INDEX_OUT_OF_RANGE)
             ELSE [f EXCEPT !.pos = pos, !.indices = Append(@, index)]

\* case DimensionType.Uppercase
CaseUppercase(f) ==
  LET charCode == charCodeAt(f.s, f.pos)
  IN IF ~isUppercase(charCode) THEN Throw(f, UNEXPECTED_CHARACTER)
     ELSE LET pos == RunEnd(f.s, f.pos + 1, Uppercase)
              chars == RunChars(f.s, f.pos, pos)
              index == decodeUppercase(chars)
          IN IF index > MAX_INDEX_VALUE
             THEN Throw([f EXCEPT !.pos = pos], INDEX_OUT_OF_RANGE)
             ELSE [f EXCEPT !.pos = pos, !.indices = Append(@, index),
                            !.expectedType = Lowercase]

\* Mutant: the limit compared with > instead of >=.
DimensionLimitReached_Late(f) == Len(f.indices) > MAX_DIMENSIONS

\* The check at the head of the loop body, lines 260-262.
DimensionLimitReached(f) == Len(f.indices) >= MAX_DIMENSIONS

\* One iteration of while (pos < s.length), lines 258-344.
LoopBody(f) ==
  IF DimensionLimitReached(f) THEN Throw(f, TOO_MANY_DIMENSIONS)
  ELSE CASE f.expectedType = Lowercase -> CaseLowercase(f)
         [] f.expectedType = Integer -> CaseInteger(f)
         [] f.expectedType = Uppercase -> CaseUppercase(f)

\* The whole loop of parse run from frame f: the frame at the throw or at loop exit.
RECURSIVE ParseLoop(_)
ParseLoop(f) ==
  IF f.error # "none" THEN f
  ELSE IF f.pos < Len(f.s) THEN ParseLoop(LoopBody(f))
  ELSE f

\* parse(s) as one call: the message it throws, "none" when it returns a Coordinate.
ParseOutcome(s) ==
  LET f == ParseLoop(ParseEntry(s))
  IN IF f.error # "none" THEN f.error ELSE ConstructorError(f.indices)

\* new Coordinate(...indices): the object built, when the constructor does not throw.
NoCoordinate == [exists |-> FALSE, indices |-> << >>]
NewCoordinate(indices) ==
  IF ConstructorError(indices) = "none"
  THEN [exists |-> TRUE, indices |-> indices]
  ELSE NoCoordinate

\* get dimensions
dimensions(indices) == Len(indices)

\* Mutant: the upper limit of at's check off by one (position = dimensions passes
\* and reads past the end, which yields undefined, coded -1).
at_PastEnd(indices, index) ==
  IF ~IsInteger(index) \/ index < 0 \/ index > Len(indices)
  THEN [threw |-> "RangeError", value |-> 0]
  ELSE [threw |-> "none",
        value |-> IF index < Len(indices) THEN indices[index + 1] ELSE -1]

\* at(index): the error it throws and the value it returns.
at(indices, index) ==
  IF ~IsInteger(index) \/ index < 0 \/ index >= Len(indices)
  THEN [threw |-> "RangeError", value |-> 0]
  ELSE [threw |-> "none", value |-> indices[index + 1]]

\* Mutant: the stored list is not frozen, the write goes through.
FrozenWrite_Unfrozen(indices, k, v) == [indices EXCEPT ![k + 1] = v]

\* A write of v at position k through the view that get indices returns: the list
\* is frozen, the write throws TypeError (module code is strict) and changes nothing.
FrozenWrite(indices, k, v) == indices

\* Mutant: validate swallows the error of parse.
validate_Swallowed(outcome) == "none"

\* validate(s): parse(s) with its result dropped; the error of parse goes through.
validate(outcome) == outcome

\* Mutant: isValid reports only the two length failures.
isValid_LengthOnly(outcome) == outcome \notin {EMPTY_INPUT, INPUT_TOO_LONG}

\* isValid(s): true when parse(s) returned, false when it threw (the catch block).
isValid(outcome) == outcome = "none"

\* ------------------------------------------------------------ inputs
\* Bounds of the enumerated inputs.
MaxShort == 3
MaxLetters == 3
MaxDigits == 3
MaxLongDigits == 6
MaxExtra == 1
MaxArgs == 4

Strings(chars, lo, hi) == UNION { [1..n -> chars] : n \in lo..hi }

\* Code units: a i v w z, 0 1 2 5 6 7, A I V W Z, and ones that bracket the classes
\* ('/' ':' '@' '[' '`' '{'), a space, NUL and a Cyrillic 'a'.
LowerSample == {97, 105, 118, 119, 122}
DigitSample == {48, 49, 50, 53, 54, 55}
UpperSample == {65, 73, 86, 87, 90}
OtherSample == {0, 32, 47, 58, 64, 91, 96, 123, 1072}
CharSample == LowerSample \cup DigitSample \cup UpperSample \cup OtherSample

\* Every short string over the sample.
ShortTokens == Strings(CharSample, 0, MaxShort)
\* One run enumerated in full after a canonical prefix, followed by at most one
\* further code unit.
Tails == Strings(CharSample, 0, 1)
LowerPrefixes == { <<97>>, <<105, 118>> }
DigitPrefixes == { <<49>>, <<50, 53, 54>> }
LowerRunTokens ==
  { r \o x : r \in Strings(LowerSample, 1, MaxLetters), x \in Tails }
DigitRunTokens ==
  { l \o r \o x : l \in LowerPrefixes, r \in Strings(DigitSample, 1, MaxDigits),
                  x \in Tails }
UpperRunTokens ==
  { l \o d \o r \o x : l \in LowerPrefixes, d \in DigitPrefixes,
                       r \in Strings(UpperSample, 1, MaxLetters), x \in Tails }
\* Long digit runs after 'a' (digits 0 2 3 5 6 7).
LongDigitSample == {48, 50, 51, 53, 54, 55}
LongDigitTokens ==
  { <<97>> \o r : r \in Strings(LongDigitSample, MaxDigits + 1, MaxLongDigits) }
\* Strings at and beyond the length limit, over a 1 A.
LongTokens ==
  Strings({97, 49, 65}, MAX_STRING_LENGTH, MAX_STRING_LENGTH + MaxExtra)

\* Tab, LF, CR, a combining acute accent, a zero-width space and a full-width 'a',
\* put at every position of a few tokens (a, iv, iw, a0, a1, iv256, a1A, iv25IV,
\* iv256IV).
ExoticSample == {9, 10, 13, 769, 8203, 65345}
BaseTokens ==
  { <<97>>, <<105, 118>>, <<105, 119>>, <<97, 48>>, <<97, 49>>,
    <<105, 118, 50, 53, 54>>, <<97, 49, 65>>, <<105, 118, 50, 53, 73, 86>>,
    <<105, 118, 50, 53, 54, 73, 86>> }
ExoticTokens ==
  UNION { { SubSeq(b, 1, k) \o <<c>> \o SubSeq(b, k + 1, Len(b)) :
              k \in 0..Len(b), c \in ExoticSample } : b \in BaseTokens }

Tokens ==
  ShortTokens \cup LowerRunTokens \cup DigitRunTokens \cup UpperRunTokens
    \cup LongDigitTokens \cup LongTokens \cup ExoticTokens

\* Index lists: every list of up to MaxArgs sample values, and every value of the
\* index range at each of the three positions.
ValueSample == {-1, 0, 1, 25, 26, 51, 52, 255, 256} \cup NonIntegers
SampleArgs == Strings(ValueSample, 0, MaxArgs)
RangeArgs ==
  UNION { { <<v>>, <<0, v>>, <<0, 0, v>> } : v \in 0..MAX_INDEX_VALUE }
ArgLists == SampleArgs \cup RangeArgs

\* The strings given to validate and isValid.
WrapperTokens ==
  {<< >>} \cup BaseTokens \cup LowerRunTokens \cup LongTokens \cup ExoticTokens

\* The positions given to at (0.5 among the non-integers), and the values a caller
\* writes into a list.
PositionSample == {-1, 0, 1, 2, 3} \cup NonIntegers
WriteSample == {7, 256}

\* ------------------------------------------------------------ state
VARIABLES
  pc,      \* "idle" | "loop" (parse at its loop head) | "parsed" | "formatted" | "thrown"
           \* | "constructed" (new Coordinate returned) | "returned" (validate, isValid)
  chain,   \* the calls made since idle, e.g. <<"format", "parse">>
  frame,   \* parse's argument and locals: s, pos, indices (result.indices), expectedType
  args,    \* the index list given to format or to new Coordinate
  coord,   \* the Coordinate last constructed (its #indices)
  str,     \* the string last returned by toString / format
  error,   \* the message of the error thrown, "none" otherwise
  ret      \* the last call of a Coordinate member, validate or isValid, and its outcome

vars == << pc, chain, frame, args, coord, str, error, ret >>

\* No such call has been made.
NoReturn ==
  [call |-> "none", arg |-> 0, value |-> 0, list |-> << >>, flag |-> FALSE,
   threw |-> "none"]

NoFrame ==
  [s |-> << >>, pos |-> 0, indices |-> << >>, expectedType |-> Lowercase,
   error |-> "none"]

Init ==
  /\ pc = "idle"
  /\ chain = << >>
  /\ frame = NoFrame
  /\ args = << >>
  /\ coord = NoCoordinate
  /\ str = << >>
  /\ error = "none"
  /\ ret = NoReturn

\* parse(s) up to its loop head.
Enter(s) ==
  LET f == ParseEntry(s)
  IN /\ frame' = f
     /\ error' = f.error
     /\ pc' = IF f.error = "none" THEN "loop" ELSE "thrown"

\* A caller invokes parse(t).
CallParse ==
  /\ pc = "idle"
  /\ \E t \in Tokens :
       /\ chain' = << "parse" >>
       /\ Enter(t)
  /\ UNCHANGED << args, coord, str, ret >>

\* One loop iteration of parse, by the branch it takes.
Iterate ==
  LET f == LoopBody(frame)
  IN /\ frame' = f
     /\ error' = f.error
     /\ pc' = IF f.error = "none" THEN "loop" ELSE "thrown"
     /\ UNCHANGED << chain, args, coord, str, ret >>

AtLoopBody == pc = "loop" /\ frame.pos < Len(frame.s)

ParseTooManyDimensions ==
  /\ AtLoopBody
  /\ DimensionLimitReached(frame)
  /\ Iterate

ParseLowercase ==
  /\ AtLoopBody
  /\ ~DimensionLimitReached(frame)
  /\ frame.expectedType = Lowercase
  /\ Iterate

ParseInteger ==
  /\ AtLoopBody
  /\ ~DimensionLimitReached(frame)
  /\ frame.expectedType = Integer
  /\ Iterate

ParseUppercase ==
  /\ AtLoopBody
  /\ ~DimensionLimitReached(frame)
  /\ frame.expectedType = Uppercase
  /\ Iterate

\* The loop is over: return new Coordinate(...result.indices).
ParseReturn ==
  /\ pc = "loop"
  /\ ~(frame.pos < Len(frame.s))
  /\ LET e == ConstructorError(frame.indices)
     IN /\ coord' = NewCoordinate(frame.indices)
        /\ error' = e
        /\ pc' = IF e = "none" THEN "parsed" ELSE "thrown"
  /\ UNCHANGED << chain, frame, args, str, ret >>

\* format(...indices) == new Coordinate(...indices).toString()
Format(indices) ==
  LET e == ConstructorError(indices)
  IN /\ args' = indices
     /\ coord' = NewCoordinate(indices)
     /\ error' = e
     /\ str' = IF e = "none" THEN toString(indices) ELSE << >>
     /\ pc' = IF e = "none" THEN "formatted" ELSE "thrown"
     /\ ret' = NoReturn

\* A caller invokes format(...a).
CallFormat ==
  /\ pc = "idle"
  /\ \E a \in ArgLists :
       /\ chain' = << "format" >>
       /\ Format(a)
  /\ UNCHANGED frame

\* A caller invokes new Coordinate(...a).
CallNew ==
  /\ pc = "idle"
  /\ \E a \in ArgLists :
       LET e == ConstructorError(a)
       IN /\ chain' = << "new" >>
          /\ args' = a
          /\ coord' = NewCoordinate(a)
          /\ error' = e
          /\ pc' = IF e = "none" THEN "constructed" ELSE "thrown"
  /\ UNCHANGED << frame, str, ret >>

\* A caller holds the Coordinate that new returned.
Constructed == pc = "constructed" /\ coord.exists

CallDimensions ==
  /\ Constructed
  /\ ret' = [NoReturn EXCEPT !.call = "dimensions", !.value = dimensions(coord.indices)]
  /\ UNCHANGED << pc, chain, frame, args, coord, str, error >>

\* get indices returns the stored list itself.
CallIndices ==
  /\ Constructed
  /\ ret' = [NoReturn EXCEPT !.call = "indices", !.list = coord.indices]
  /\ UNCHANGED << pc, chain, frame, args, coord, str, error >>

\* at(i); a RangeError leaves the Coordinate with its caller.
CallAt ==
  /\ Constructed
  /\ \E i \in PositionSample :
       LET r == at(coord.indices, i)
       IN ret' = [NoReturn EXCEPT !.call = "at", !.arg = i, !.value = r.value,
                                  !.threw = r.threw]
  /\ UNCHANGED << pc, chain, frame, args, coord, str, error >>

CallToString ==
  /\ Constructed
  /\ str' = toString(coord.indices)
  /\ ret' = [NoReturn EXCEPT !.call = "toString", !.list = toString(coord.indices)]
  /\ UNCHANGED << pc, chain, frame, args, coord, error >>

\* The caller writes into the list that get indices returned.
WriteIndices ==
  /\ Constructed
  /\ \E k \in 0..(Len(coord.indices) - 1), v \in WriteSample :
       /\ coord' = [coord EXCEPT !.indices = FrozenWrite(coord.indices, k, v)]
       /\ ret' = [NoReturn EXCEPT !.call = "write", !.arg = k, !.value = v,
                                  !.list = coord'.indices, !.threw = "TypeError"]
  /\ UNCHANGED << pc, chain, frame, args, str, error >>

\* The caller changes its own list after new Coordinate(...list): the constructor
\* took a rest parameter and stored a copy, so only the caller's list (ret.list)
\* changes.
MutateArguments ==
  /\ Constructed
  /\ \E k \in 1..Len(args), v \in WriteSample :
       ret' = [NoReturn EXCEPT !.call = "mutate", !.arg = k - 1, !.value = v,
                               !.list = [args EXCEPT ![k] = v]]
  /\ UNCHANGED << pc, chain, frame, args, coord, str, error >>

\* A caller invokes validate(t) or isValid(t), which call parse(t).
CallValidate ==
  /\ pc = "idle"
  /\ \E t \in WrapperTokens :
       /\ chain' = << "validate", "parse" >>
       /\ Enter(t)
  /\ UNCHANGED << args, coord, str, ret >>

CallIsValid ==
  /\ pc = "idle"
  /\ \E t \in WrapperTokens :
       /\ chain' = << "isValid", "parse" >>
       /\ Enter(t)
  /\ UNCHANGED << args, coord, str, ret >>

\* parse was called by validate or isValid, which has not returned yet.
InWrapper(name) == chain = << name, "parse" >> /\ pc \in {"parsed", "thrown"}

\* validate after its call of parse: void, or the error of parse.
ValidateReturn ==
  /\ InWrapper("validate")
  /\ chain' = << "validate" >>
  /\ error' = validate(error)
  /\ pc' = IF error' = "none" THEN "returned" ELSE "thrown"
  /\ ret' = [NoReturn EXCEPT !.call = "validate",
                             !.threw = IF error' = "none" THEN "none" ELSE "CellError"]
  /\ UNCHANGED << frame, args, coord, str >>

\* isValid after its call of parse: the try block's true or the catch block's false.
IsValidReturn ==
  /\ InWrapper("isValid")
  /\ chain' = << "isValid" >>
  /\ error' = "none"
  /\ pc' = "returned"
  /\ ret' = [NoReturn EXCEPT !.call = "isValid", !.flag = isValid(error)]
  /\ UNCHANGED << frame, args, coord, str >>

\* format(...parsed.indices) on the Coordinate parse returned.
FormatParsed ==
  /\ pc = "parsed"
  /\ ~InWrapper("validate")
  /\ ~InWrapper("isValid")
  /\ Len(chain) < 3
  /\ chain' = Append(chain, "format")
  /\ Format(coord.indices)
  /\ UNCHANGED frame

\* parse(original) on the string format returned.
ParseFormatted ==
  /\ pc = "formatted"
  /\ chain = << "format" >>
  /\ chain' = Append(chain, "parse")
  /\ Enter(str)
  /\ UNCHANGED << args, coord, str, ret >>

\* The call chain is over; the caller is free to make another call.
Return ==
  /\ pc \in {"parsed", "formatted", "thrown", "constructed", "returned"}
  /\ ~InWrapper("validate")
  /\ ~InWrapper("isValid")
  /\ pc' = "idle"
  /\ chain' = << >>
  /\ frame' = NoFrame
  /\ args' = << >>
  /\ coord' = NoCoordinate
  /\ str' = << >>
  /\ error' = "none"
  /\ ret' = NoReturn

Next ==
  \/ CallParse
  \/ ParseTooManyDimensions
  \/ ParseLowercase
  \/ ParseInteger
  \/ ParseUppercase
  \/ ParseReturn
  \/ CallFormat
  \/ CallNew
  \/ CallDimensions
  \/ CallIndices
  \/ CallAt
  \/ CallToString
  \/ WriteIndices
  \/ MutateArguments
  \/ CallValidate
  \/ CallIsValid
  \/ ValidateReturn
  \/ IsValidReturn
  \/ FormatParsed
  \/ ParseFormatted
  \/ Return

Spec == Init /\ [][Next]_vars

\* parse under validate and isValid alone, with the running call never abandoned:
\* the loop of parse is sequential code, so an iteration that can run does run.
ParseStep ==
  \/ ParseTooManyDimensions
  \/ ParseLowercase
  \/ ParseInteger
  \/ ParseUppercase
  \/ ParseReturn

WrapperNext ==
  \/ CallValidate
  \/ CallIsValid
  \/ ParseTooManyDimensions
  \/ ParseLowercase
  \/ ParseInteger
  \/ ParseUppercase
  \/ ParseReturn
  \/ ValidateReturn
  \/ IsValidReturn
  \/ Return

RunSpec == Init /\ [][WrapperNext]_vars /\ WF_vars(ParseStep)

\* ------------------------------------------------------------ vocabulary of the claims
AsciiLower == 97..122
AsciiDigit == 48..57
AsciiUpper == 65..90

Last(q) == q[Len(q)]
\* The call in progress or just finished is parse.
InParse == chain # << >> /\ Last(chain) = "parse"
ValidIndices(indices) ==
  /\ Len(indices) \in 1..3
  /\ \A i \in 1..Len(indices) : indices[i] \in 0..255

\* ------------------------------------------------------------ C1
\* C1: for every token s that parse accepts, format(parse(s).indices) returns
\* exactly s (parse accepts no spelling that format does not produce).
C1_TokenRoundTrip ==
  (pc = "formatted" /\ chain = << "parse", "format" >>) => str = frame.s

\* ------------------------------------------------------------ C2
\* C2: for every valid coordinate c, parse(format(c.indices)) succeeds and returns
\* a coordinate whose indices equal c's.
C2_CoordinateRoundTrip ==
  (chain = << "format", "parse" >> /\ ValidIndices(args)) =>
    /\ pc # "thrown"
    /\ pc = "parsed" => (coord.exists /\ coord.indices = args)

C2_Witness ==
  /\ pc = "parsed"
  /\ chain = << "format", "parse" >>
  /\ args = << 255, 255, 255 >>
  /\ frame.s = << 105, 118, 50, 53, 54, 73, 86 >>
  /\ coord.indices = args

\* ------------------------------------------------------------ C3
\* The spelling the claim gives for a letter index v over the alphabet at base.
LetterSpelling(base, v) ==
  IF v < 26
  THEN << base + v >>
  ELSE << base + ((v - 26) \div 26), base + ((v - 26) % 26) >>

\* The decimal string of n (1..999), digit by digit.
DecimalSpelling(n) ==
  IF n >= 100 THEN << 48 + (n \div 100), 48 + ((n \div 10) % 10), 48 + (n % 10) >>
  ELSE IF n >= 10 THEN << 48 + (n \div 10), 48 + (n % 10) >>
  ELSE << 48 + n >>

PositionSpelling(p, v) ==
  CASE p % 3 = 0 -> LetterSpelling(97, v)
    [] p % 3 = 1 -> DecimalSpelling(v + 1)
    [] p % 3 = 2 -> LetterSpelling(65, v)

ClaimedSerialization(indices) ==
  LET part(p) == IF p < Len(indices) THEN PositionSpelling(p, indices[p + 1]) ELSE << >>
  IN part(0) \o part(1) \o part(2)

\* C3: the serialization of a valid coordinate is the concatenation over positions
\* 0,1,2 of lowercase letters / decimal of v+1 / uppercase letters, with
\* 0->a, 25->z, 26->aa, 51->az, 255->iv.
C3_Serialization ==
  pc = "formatted" =>
    /\ str = ClaimedSerialization(coord.indices)
    /\ coord.indices = << 0 >> => str = << 97 >>
    /\ coord.indices = << 25 >> => str = << 122 >>
    /\ coord.indices = << 26 >> => str = << 97, 97 >>
    /\ coord.indices = << 51 >> => str = << 97, 122 >>
    /\ coord.indices = << 255 >> => str = << 105, 118 >>
    /\ coord.indices = << 0, 255, 51 >> => str = << 97, 50, 53, 54, 65, 90 >>

C3_Witness ==
  /\ pc = "formatted"
  /\ chain = << "format" >>
  /\ coord.indices = << 51, 255, 26 >>
  /\ str = << 97, 122, 50, 53, 54, 65, 65 >>

\* ------------------------------------------------------------ C4
\* C4: every Coordinate that exists, built by the constructor or returned by parse,
\* holds 1 to 3 indices, each an integer in 0..255.
C4_CoordinateInvariant == coord.exists => ValidIndices(coord.indices)

C4_Witness ==
  /\ pc = "parsed"
  /\ chain = << "parse" >>
  /\ coord.exists
  /\ coord.indices = << 255, 255, 255 >>

\* ------------------------------------------------------------ C5
\* C5: parse fails with EmptyInput for the empty string and with InputTooLong for
\* every string longer than 7 characters, whatever its content.
C5_LengthChecks ==
  InParse =>
    /\ Len(frame.s) = 0 => (pc = "thrown" /\ error = "empty input")
    /\ Len(frame.s) > 7 => (pc = "thrown" /\ error = "input exceeds 7 characters")

C5_Witness ==
  /\ InParse
  /\ Len(frame.s) = 8
  /\ frame.s[1] \notin AsciiLower
  /\ pc = "thrown"
  /\ error = "input exceeds 7 characters"

\* ------------------------------------------------------------ C6
\* C6: for every token of length 1..7 whose first character is not an ASCII
\* lowercase letter, parse fails with InvalidStart.
C6_InvalidStart ==
  (InParse /\ Len(frame.s) \in 1..7 /\ frame.s[1] \notin AsciiLower) =>
    (pc = "thrown" /\ error = "must start with lowercase letter")

C6_Witness ==
  /\ InParse
  /\ Len(frame.s) = 7
  /\ frame.s[1] = 65
  /\ pc = "thrown"
  /\ error = "must start with lowercase letter"

\* ------------------------------------------------------------ C7
\* parse stands at its loop head with input left to read.
AtLoopHeadWithInput == pc = "loop" /\ frame.pos < Len(frame.s)
\* The code unit the next iteration reads first.
NextChar == frame.s[frame.pos + 1]

\* C7: if three runs have been decoded and at least one character remains, parse
\* fails with TooManyDimensions whatever that character is.
C7_DimensionCheckFirst ==
  [][(AtLoopHeadWithInput /\ Len(frame.indices) = 3) =>
       (pc' = "thrown" /\ error' = "exceeds 3 dimensions")]_vars

C7_Witness ==
  /\ InParse
  /\ pc = "thrown"
  /\ error = "exceeds 3 dimensions"
  /\ Len(frame.indices) = 3
  /\ frame.s = << 97, 49, 65, 64 >>
  /\ frame.pos = 3

\* ------------------------------------------------------------ C8
\* The maximal run of code units of `class` that starts at 0-based position pos.
MaximalRun(s, pos, class) ==
  LET e == CHOOSE e \in pos..Len(s) :
             /\ \A k \in (pos + 1)..e : s[k] \in class
             /\ e = Len(s) \/ s[e + 1] \notin class
  IN SubSeq(s, pos + 1, e)

RECURSIVE Pow10(_)
Pow10(n) == IF n = 0 THEN 1 ELSE 10 * Pow10(n - 1)

\* The number a digit string denotes in decimal.
RECURSIVE DecimalValue(_)
DecimalValue(d) ==
  IF d = << >> THEN 0
  ELSE (Head(d) - 48) * Pow10(Len(d) - 1) + DecimalValue(Tail(d))

\* The index a two-letter run over the alphabet at base denotes.
TwoLetterValue(base, run) == 26 + 26 * (run[1] - base) + (run[2] - base)

FailsOutOfRange == pc' = "thrown" /\ error' = "index exceeds 255"

C8_Step ==
  AtLoopHeadWithInput =>
    /\ (Len(frame.indices) = 1 /\ NextChar \in AsciiDigit \ {48}) =>
         LET value == DecimalValue(MaximalRun(frame.s, frame.pos, AsciiDigit))
         IN IF value \in 1..256
            THEN pc' = "loop" /\ frame'.indices = Append(frame.indices, value - 1)
            ELSE FailsOutOfRange
    /\ (Len(frame.indices) = 0
          /\ Len(MaximalRun(frame.s, frame.pos, AsciiLower)) = 2
          /\ TwoLetterValue(97, MaximalRun(frame.s, frame.pos, AsciiLower)) > 255) =>
         FailsOutOfRange
    /\ (Len(frame.indices) = 2
          /\ Len(MaximalRun(frame.s, frame.pos, AsciiUpper)) = 2
          /\ TwoLetterValue(65, MaximalRun(frame.s, frame.pos, AsciiUpper)) > 255) =>
         FailsOutOfRange

\* C8: a digit run not starting with '0' is accepted exactly when its decimal value
\* is in 1..256 and then decodes to value-1; a run whose value exceeds 255 fails
\* with IndexOutOfRange in every alphabet ('iw', 'IW'); long digit runs do not wrap.
C8_IndexOutOfRange == [][C8_Step]_vars

C8_Witness ==
  /\ InParse
  /\ pc = "thrown"
  /\ error = "index exceeds 255"
  /\ frame.s = << 97, 50, 53, 55 >>
  /\ frame.indices = << 0 >>

\* ------------------------------------------------------------ C9
\* C9: whenever parse reaches a digit run whose first digit is '0', it fails with
\* LeadingZero, whatever follows.
C9_LeadingZero ==
  [][(AtLoopHeadWithInput /\ Len(frame.indices) = 1 /\ NextChar = 48) =>
       (pc' = "thrown" /\ error' = "leading zero")]_vars

C9_Witness ==
  /\ InParse
  /\ pc = "thrown"
  /\ error = "leading zero"
  /\ frame.s = << 97, 48, 48, 55 >>
  /\ frame.pos = 1

\* ------------------------------------------------------------ C10
\* C10: when one or two runs are decoded and the next character is not of the
\* expected class (digit after the lowercase run, uppercase after the digit run),
\* parse fails with UnexpectedCharacter.
C10_UnexpectedCharacter ==
  [][(AtLoopHeadWithInput
        /\ \/ Len(frame.indices) = 1 /\ NextChar \notin AsciiDigit
           \/ Len(frame.indices) = 2 /\ NextChar \notin AsciiUpper) =>
       (pc' = "thrown" /\ error' = "unexpected character")]_vars

C10_Witness ==
  /\ InParse
  /\ pc = "thrown"
  /\ error = "unexpected character"
  /\ frame.s = << 97, 49, 97 >>
  /\ frame.indices = << 0, 0 >>

\* ------------------------------------------------------------ C11
AsciiAlphanumeric == AsciiLower \cup AsciiDigit \cup AsciiUpper
HasForeignChar(s) == \E k \in 1..Len(s) : s[k] \notin AsciiAlphanumeric
\* The 0-based position of the first code unit outside a..z, 0..9, A..Z.
FirstForeign(s) ==
  (CHOOSE k \in 1..Len(s) :
     /\ s[k] \notin AsciiAlphanumeric
     /\ \A j \in 1..(k - 1) : s[j] \in AsciiAlphanumeric) - 1

\* C11 as stated: a token containing a character outside a..z, 0..9, A..Z never
\* parses, and its failure is always UnexpectedCharacter or InvalidStart.
C11_ForeignAlwaysUnexpected ==
  (InParse /\ HasForeignChar(frame.s)) =>
    /\ pc # "parsed"
    /\ pc = "thrown" =>
         error \in {"unexpected character", "must start with lowercase letter"}

\* The failure parse gives for a token of at most 7 code units whose first foreign
\* code unit is at 0-based position k.
ForeignFailure(s, k) ==
  LET before == SubSeq(s, 1, k)
  IN IF k = 0 THEN "must start with lowercase letter"
     ELSE IF ParseOutcome(before) # "none" THEN ParseOutcome(before)
     ELSE IF Len(ParseLoop(ParseEntry(before)).indices) = 3 THEN "exceeds 3 dimensions"
     ELSE "unexpected character"

\* C11 (amended): such a token never parses; it fails with InputTooLong when longer
\* than 7, with InvalidStart when the character is the first one, with the failure
\* of the text before the character when that text does not parse by itself, with
\* TooManyDimensions when that text holds three runs, and with UnexpectedCharacter
\* otherwise.
C11_ForeignNeverParses ==
  (InParse /\ HasForeignChar(frame.s)) =>
    /\ pc \in {"loop", "thrown"}
    /\ pc = "thrown" =>
         error = IF Len(frame.s) > 7 THEN "input exceeds 7 characters"
                 ELSE ForeignFailure(frame.s, FirstForeign(frame.s))

C11_Witness ==
  /\ InParse
  /\ pc = "thrown"
  /\ frame.s = << 97, 8203, 49 >>
  /\ error = "unexpected character"

\* ------------------------------------------------------------ C12
\* A number that is no integer in 0..255: negative, above 255, or not an integer
\* at all (1.5, NaN, Infinity).
ClaimedBadIndex(v) == v \in NonIntegers \/ v < 0 \/ v > 255

\* The failure the claim gives for a list of indices, "none" for a valid list.
ClaimedConstructionFailure(indices) ==
  IF Len(indices) = 0 THEN "at least one index required"
  ELSE IF Len(indices) > 3 THEN "exceeds 3 dimensions"
  ELSE IF \E i \in 1..Len(indices) : ClaimedBadIndex(indices[i])
       THEN "index exceeds 255"
  ELSE "none"

\* C12: constructing a Coordinate fails with NoIndicesProvided for zero indices,
\* TooManyDimensions for more than three, IndexOutOfRange for an index that is not
\* an integer in 0..255; format fails with exactly the failure construction would
\* give and otherwise returns the serialization.
C12_ConstructionFailures ==
  /\ (chain = << "new" >> /\ ret = NoReturn) =>
       /\ error = ClaimedConstructionFailure(args)
       /\ pc = IF error = "none" THEN "constructed" ELSE "thrown"
       /\ error = "none" => (coord.exists /\ coord.indices = args)
       /\ error # "none" => ~coord.exists
  /\ chain = << "format" >> =>
       /\ error = ClaimedConstructionFailure(args)
       /\ pc = IF error = "none" THEN "formatted" ELSE "thrown"
       /\ error = "none" => str = ClaimedSerialization(args)

C12_Witness ==
  /\ chain = << "format" >>
  /\ pc = "thrown"
  /\ args = << 0, 1000003 >>
  /\ error = "index exceeds 255"

\* ------------------------------------------------------------ C13
\* C13: isValid(s) never raises; it returns true exactly when parse(s) succeeds.
C13_IsValidTotal ==
  /\ chain = << "isValid" >> =>
       /\ pc = "returned"
       /\ error = "none"
       /\ ret.call = "isValid"
       /\ ret.threw = "none"
       /\ ret.flag = (ParseOutcome(frame.s) = "none")
  /\ ret.call = "isValid" => chain = << "isValid" >>

C13_Witness ==
  /\ chain = << "isValid" >>
  /\ ret.call = "isValid"
  /\ ~ret.flag
  /\ frame.s = << 97, 49, 65, 10 >>

\* ------------------------------------------------------------ C14
\* C14: validate(s) fails with the error kind and message of parse(s) when parse(s)
\* fails, and returns no value when parse(s) succeeds.
C14_ValidateSameError ==
  /\ chain = << "validate" >> =>
       /\ ret.call = "validate"
       /\ error = ParseOutcome(frame.s)
       /\ ParseOutcome(frame.s) # "none" =>
            (pc = "thrown" /\ ret.threw = "CellError" /\ error \in ErrorMessages)
       /\ ParseOutcome(frame.s) = "none" =>
            (pc = "returned" /\ ret.threw = "none"
               /\ ret.value = NoReturn.value /\ ret.list = NoReturn.list)
  /\ ret.call = "validate" => chain = << "validate" >>

C14_Witness ==
  /\ chain = << "validate" >>
  /\ pc = "thrown"
  /\ frame.s = << 97, 48, 10 >>
  /\ error = "leading zero"

\* ------------------------------------------------------------ C15
\* The Coordinate operations and what a caller can do to the lists involved.
CoordinateOperation ==
  \/ CallDimensions \/ CallAt \/ CallIndices \/ CallToString
  \/ WriteIndices \/ MutateArguments

\* C15: no operation of a Coordinate changes its indices: after any sequence of
\* dimensions, at (failed calls included), indices and toString, indices() is the
\* list given at construction; the view is frozen (a write through it changes
\* nothing), and changing the list given to the constructor afterwards does not
\* change the Coordinate.
C15_Step ==
  CoordinateOperation =>
    /\ coord' = coord
    /\ ret'.call = "indices" => ret'.list = args
    /\ ret'.call = "write" => (ret'.threw = "TypeError" /\ ret'.list = args)
    /\ ret'.call = "mutate" =>
         (ret'.list[ret'.arg + 1] = ret'.value /\ coord'.indices = args)
    /\ args' = args
    /\ coord'.exists
    /\ coord'.indices = args'
C15_Immutable == [][C15_Step]_vars

C15_Witness ==
  /\ pc = "constructed"
  /\ ret.call = "write"
  /\ ret.arg = 1
  /\ ret.value = 7
  /\ args = << 0, 255, 26 >>
  /\ coord.indices = << 0, 255, 26 >>

\* ------------------------------------------------------------ C16
\* C16: at(i) returns the i-th index for an integer i with 0 <= i < dimensions and
\* fails with a RangeError, not a CellError, for any other i.
C16_At ==
  ret.call = "at" =>
    /\ pc = "constructed"
    /\ error = "none"
    /\ IF ret.arg \in 0..(Len(coord.indices) - 1)
       THEN ret.threw = "none" /\ ret.value = coord.indices[ret.arg + 1]
       ELSE ret.threw = "RangeError"

C16_Witness ==
  /\ ret.call = "at"
  /\ ret.arg = 3
  /\ ret.threw = "RangeError"
  /\ coord.indices = << 0, 255, 26 >>

\* ------------------------------------------------------------ C17
WellFormedText(text) ==
  /\ Len(text) \in 1..7
  /\ \A k \in 1..Len(text) : text[k] \in AsciiAlphanumeric

\* C17: the serialization of a valid Coordinate never fails and has 1 to 7
\* characters, all of a..z, 0..9, A..Z; 7 is reached ('iv256IV'); parse's length
\* check rejects no serialized token.
C17_SerializedLength ==
  /\ pc = "formatted" => WellFormedText(str)
  /\ ret.call = "toString" =>
       (ret.threw = "none" /\ WellFormedText(ret.list) /\ pc = "constructed")
  /\ ValidIndices(<< 255, 255, 255 >>)
       /\ Len(toString(<< 255, 255, 255 >>)) = 7
       /\ toString(<< 255, 255, 255 >>) = << 105, 118, 50, 53, 54, 73, 86 >>
  /\ chain = << "format", "parse" >> =>
       /\ frame.s = str
       /\ error \notin {"empty input", "input exceeds 7 characters"}

C17_Witness ==
  /\ chain = << "format", "parse" >>
  /\ pc = "loop"
  /\ frame.pos = 0
  /\ frame.s = << 105, 118, 50, 53, 54, 73, 86 >>

\* ------------------------------------------------------------ C18
SevenParseFailures ==
  { "empty input", "input exceeds 7 characters", "must start with lowercase letter",
    "unexpected character", "leading zero", "exceeds 3 dimensions",
    "index exceeds 255" }

\* C18: while parse loops it holds at most three indices, each in 0..255; when the
\* loop ends without failure it holds 1 to 3 of them, so the final construction
\* never fails; parse never fails with NoIndicesProvided, and every failure of parse
\* is one of the seven others.
C18_ParseFailures ==
  InParse =>
    /\ pc = "loop" =>
         /\ Len(frame.indices) <= 3
         /\ \A i \in 1..Len(frame.indices) : frame.indices[i] \in 0..255
         /\ frame.pos >= Len(frame.s) =>
              (ValidIndices(frame.indices)
                 /\ ClaimedConstructionFailure(frame.indices) = "none")
    /\ pc = "parsed" => (coord.exists /\ coord.indices = frame.indices)
    /\ pc = "thrown" =>
         (error \in SevenParseFailures /\ error # "at least one index required")
    /\ pc \in {"loop", "parsed", "thrown"}

C18_Witness ==
  /\ InParse
  /\ pc = "loop"
  /\ frame.pos = Len(frame.s)
  /\ frame.s = << 105, 118, 50, 53, 54, 73, 86 >>
  /\ frame.indices = << 255, 255, 255 >>
  /\ chain = << "parse" >>

\* ------------------------------------------------------------ C19
\* The alphabet of 0-based position k: lowercase, digits, uppercase, cyclically.
AlphabetOfPosition(k) ==
  CASE k % 3 = 0 -> AsciiLower
    [] k % 3 = 1 -> AsciiDigit
    [] k % 3 = 2 -> AsciiUpper

\* The value of a run in the alphabet of position k (a run of one or two letters,
\* or of digits).
LetterValue(base, run) ==
  IF Len(run) = 1 THEN run[1] - base ELSE TwoLetterValue(base, run)

ValueInAlphabet(k, run) ==
  CASE k % 3 = 0 -> LetterValue(97, run)
    [] k % 3 = 1 -> DecimalValue(run) - 1
    [] k % 3 = 2 -> LetterValue(65, run)

\* An iteration of parse that decodes an index: from a loop head to a loop head.
DecodesIndex == InParse /\ pc = "loop" /\ pc' = "loop" /\ frame'.s = frame.s

C19_Step ==
  /\ (InParse' /\ pc' = "loop") => frame'.expectedType = Len(frame'.indices) % 3
  /\ DecodesIndex =>
       LET k == Len(frame.indices)
           run == SubSeq(frame.s, frame.pos + 1, frame'.pos)
       IN /\ Len(frame'.indices) = k + 1
          /\ SubSeq(frame'.indices, 1, k) = frame.indices
          /\ run # << >>
          /\ \A j \in 1..Len(run) : run[j] \in AlphabetOfPosition(k)
          /\ (k % 3 = 1 \/ Len(run) <= 2) =>
               frame'.indices[k + 1] = ValueInAlphabet(k, run)

\* C19: at every loop head of parse the expected type is the number of indices
\* decoded so far modulo 3 (0 lowercase, 1 integer, 2 uppercase), and the k-th index
\* is decoded from a run of the alphabet of position k.
C19_ExpectedType == [][C19_Step]_vars

C19_Witness ==
  /\ InParse
  /\ pc = "loop"
  /\ frame.s = << 97, 49, 65, 97 >>
  /\ frame.pos = 3
  /\ Len(frame.indices) = 3
  /\ frame.expectedType = 0

\* ------------------------------------------------------------ C20
\* An iteration of parse either fails or moves the cursor forward, within the input.
C20_Step ==
  (InParse /\ pc = "loop" /\ frame.pos < Len(frame.s)) =>
    \/ pc' = "thrown"
    \/ /\ pc' = "loop"
       /\ frame'.pos >= frame.pos + 1
       /\ frame'.pos <= Len(frame.s)
       /\ Len(frame'.indices) = Len(frame.indices) + 1

\* The cursor stays within the first 7 characters and at most three runs are decoded.
C20_Bounded ==
  InParse =>
    /\ frame.pos <= 7
    /\ frame.pos <= Len(frame.s)
    /\ Len(frame.indices) <= 3
    /\ pc = "loop" => Len(frame.s) <= 7

\* C20: parse terminates on every input: each loop iteration fails or advances the
\* cursor by at least one character, at most three runs are decoded, and no
\* character beyond position 7 is read.
C20_Terminates ==
  /\ [][C20_Step]_vars
  /\ []C20_Bounded
  /\ (InParse /\ pc = "loop") ~> (pc \in {"parsed", "thrown"})

C20_Witness ==
  /\ chain = << "validate", "parse" >>
  /\ pc = "parsed"
  /\ frame.s = << 105, 118, 50, 53, 54, 73, 86 >>
  /\ frame.pos = 7
  /\ Len(frame.indices) = 3

\* ------------------------------------------------------------ C21
\* The letters of the case expected at a loop head with k indices (k = 0 or 2) and
\* the code of that alphabet's first letter.
ExpectedLetters == IF Len(frame.indices) = 0 THEN AsciiLower ELSE AsciiUpper
ExpectedBase == IF Len(frame.indices) = 0 THEN 97 ELSE 65

\* parse is at a loop head in front of a run of three or more letters of the
\* expected case.
AtLongLetterRun ==
  /\ AtLoopHeadWithInput
  /\ Len(frame.indices) \in {0, 2}
  /\ Len(MaximalRun(frame.s, frame.pos, ExpectedLetters)) >= 3

C21_Step ==
  AtLongLetterRun =>
    LET run == MaximalRun(frame.s, frame.pos, ExpectedLetters)
        value == 26 + 26 * (run[1] - ExpectedBase) + (run[2] - ExpectedBase)
    IN IF value <= 255
       THEN /\ pc' = "loop"
            /\ frame'.indices = Append(frame.indices, value)
            /\ frame'.pos = frame.pos + Len(run)
       ELSE /\ pc' = "thrown"
            /\ error' = "index exceeds 255"
            /\ frame'.indices = frame.indices

JustConstructed ==
  \/ chain = << "new" >> /\ ret = NoReturn
  \/ chain = << "format" >>

\* C22: construction (and format) checks the number of indices before any index
\* value: more than 3 indices fail with TooManyDimensions even when some index is
\* out of range or not an integer, and IndexOutOfRange is reported only for 1 to 3
\* indices.
C22_CountBeforeValues ==
  JustConstructed =>
    /\ Len(args) > 3 => (pc = "thrown" /\ error = "exceeds 3 dimensions")
    /\ error = "index exceeds 255" =>
         /\ pc = "thrown"
         /\ Len(args) \in 1..3
         /\ \E i \in 1..Len(args) : ClaimedBadIndex(args[i])

C22_Witness ==
  /\ chain = << "new" >>
  /\ pc = "thrown"
  /\ args = << 256, 1000003, -1, 0 >>
  /\ error = "exceeds 3 dimensions"
====
